---- MODULE Spec2Model ----
(***************************************************************************)
(* A model of gtool.py: ObjSelector (nearest-object picking), HighlightList *)
(* (overlay lists), GTool (the click / drag / confirm state machine) and    *)
(* the tools GToolMove and GToolHide.                                       *)
(*                                                                          *)
(* Python objects are records of their attributes.  A callable, or a tuple  *)
(* (callable, args...) as run_tuple accepts it, is a record [f, a]: the     *)
(* function's name and its extra arguments as a sequence of integers.       *)
(* None is NoneF for a callable and NoCoor (the empty tuple) for a          *)
(* coordinate.                                                              *)
(***************************************************************************)
EXTENDS Integers, Sequences, FiniteSets, TLC

VARIABLES
    kind,     \* the class of the tool object: "move", "hide" or "generic"
    active,   \* TRUE between enter() and leave()
    scale,    \* viewport.scale
    tool,     \* the attributes of the GTool object
    vis,      \* the scene: show_all_mode, gi_to_hidden, move_mode, drawn overlays
    env,      \* the construction: hyper_params of every step
    trace,    \* the calls made by the last externally called method, in order
    ev,       \* the last externally called method and its arguments
    press,    \* history of the current press: what happened since it armed
    hlobj,    \* a stand-alone HighlightList object
    hlop,     \* the last method called on hlobj
    pk        \* a stand-alone call of ObjSelector.coor_to_obj or coor_to_attempts

vars == <<kind, active, scale, tool, vis, env, trace, ev, press, hlobj, hlop, pk>>

--------------------------------------------------------------------------
(* Bounds of the model *)

\* the viewport scales tried are 1 and MaxScale
MaxScale == 4
\* no overlay list of the engine grows beyond MaxHl entries
MaxHl == 2
\* the stand-alone HighlightList holds at most MaxL entries
MaxL == 3
\* the stand-alone pick call gets at most MaxCand candidates
MaxCand == 3
\* the stand-alone call of coor_to_attempts gets at most MaxSel selectors
MaxSel == 2
\* each with at most MaxAttLen candidates
MaxAttLen == 2

(* Program constants *)

find_radius_pix == 20
distance_to_drag_pix == 5
distance_to_drag_pix_move == 0

Scales == {1, MaxScale}

--------------------------------------------------------------------------
(* Coordinates and distances.  The cursor visits the corners of a triangle *)
(* with the sides 3, 4 and 5, so that every distance the program computes  *)
(* is an integer.                                                          *)

Coords == {<<0, 0>>, <<3, 0>>, <<3, 4>>}
NoCoor == <<>>

Abs(n) == IF n < 0 THEN -n ELSE n

\* np.linalg.norm(v)
Norm(v) == CHOOSE n \in 0..10 : n * n = v[1] * v[1] + v[2] * v[2]

Sub(a, b) == <<a[1] - b[1], a[2] - b[2]>>

\* numerical objects: Point(x, y); a vertical Line x = k; a Circle round
\* the origin with radius r
Point(c) == [t |-> "Point", v |-> c]
Line(k) == [t |-> "Line", v |-> <<k>>]
Circle(r) == [t |-> "Circle", v |-> <<r>>]

\* objn.dist_from(coor)
dist_from(objn, coor) ==
    CASE objn.t = "Point" -> Norm(Sub(coor, objn.v))
      [] objn.t = "Line" -> Abs(coor[1] - objn.v[1])
      [] objn.t = "Circle" -> Abs(Norm(coor) - objn.v[1])

--------------------------------------------------------------------------
(* run_tuple and callables *)

NoneF == [f |-> "None", a |-> <<>>]
Fn(name) == [f |-> name, a |-> <<>>]
FnA(name, args) == [f |-> name, a |-> args]

--------------------------------------------------------------------------
(* HighlightList.  l and ini are Python lists; shared says that both        *)
(* attributes refer to the same list object, so that a mutation in place    *)
(* of one is a mutation of the other.  hasini says that the attribute ini   *)
(* exists: __init__ sets l and saved, and ini is first set by save or       *)
(* reset_save.  raised is the exception the last method raised, if any.     *)

Entry(x, permanent) == [x |-> x, permanent |-> permanent]

HighlightList_init ==
    [l |-> <<>>, ini |-> <<>>, hasini |-> FALSE, shared |-> FALSE, raised |-> "no"]

\* a mutation in place of the list self.l
SetInPlace(h, newl) ==
    IF h.shared THEN [h EXCEPT !.l = newl, !.ini = newl, !.raised = "no"]
    ELSE [h EXCEPT !.l = newl, !.raised = "no"]

RECURSIVE SeqFilterPerm(_)
SeqFilterPerm(s) ==
    IF s = <<>> THEN <<>>
    ELSE (IF Head(s).permanent THEN <<Head(s)>> ELSE <<>>) \o SeqFilterPerm(Tail(s))

RECURSIVE SeqMapX(_)
SeqMapX(s) == IF s = <<>> THEN <<>> ELSE <<Head(s).x>> \o SeqMapX(Tail(s))

RECURSIVE SeqMapEntry(_, _)
SeqMapEntry(args, permanent) ==
    IF args = <<>> THEN <<>>
    ELSE <<Entry(Head(args), permanent)>> \o SeqMapEntry(Tail(args), permanent)

to_list(h) == SeqMapX(h.l)

hl_add(h, args, permanent) == SetInPlace(h, h.l \o SeqMapEntry(args, permanent))

\* self.l = self.ini : the list is not copied
hl_load_alias(h) ==
    IF h.hasini THEN [h EXCEPT !.l = h.ini, !.shared = TRUE, !.raised = "no"]
    ELSE [h EXCEPT !.raised = "AttributeError"]

\* self.l = list(self.ini)
hl_load(h) ==
    IF h.hasini THEN [h EXCEPT !.l = h.ini, !.shared = FALSE, !.raised = "no"]
    ELSE [h EXCEPT !.raised = "AttributeError"]

\* self.ini = [x for x in self.l if x[1]]
hl_save(h) ==
    [h EXCEPT !.ini = SeqFilterPerm(h.l), !.hasini = TRUE, !.shared = FALSE,
              !.raised = "no"]

hl_reset_save(h) ==
    [h EXCEPT !.ini = <<>>, !.hasini = TRUE, !.shared = FALSE, !.raised = "no"]

hl_pop(h) ==
    IF h.l = <<>> THEN [h EXCEPT !.raised = "IndexError"]
    ELSE SetInPlace(h, SubSeq(h.l, 1, Len(h.l) - 1))

\* list.remove(v): the first entry equal to v is removed
RECURSIVE SeqRemoveFirst(_, _)
SeqRemoveFirst(s, v) ==
    IF s = <<>> THEN <<>>
    ELSE IF Head(s) = v THEN Tail(s)
    ELSE <<Head(s)>> \o SeqRemoveFirst(Tail(s), v)

hl_remove(h, x) ==
    IF \E i \in 1..Len(h.l) : h.l[i] = Entry(x, TRUE)
    THEN SetInPlace(h, SeqRemoveFirst(h.l, Entry(x, TRUE)))
    ELSE [h EXCEPT !.raised = "ValueError"]

\* remove_if(cond) with cond = (lambda x: x == y); self.l is bound to a new list
RECURSIVE SeqRemoveX(_, _)
SeqRemoveX(s, y) ==
    IF s = <<>> THEN <<>>
    ELSE (IF Head(s).x = y THEN <<>> ELSE <<Head(s)>>) \o SeqRemoveX(Tail(s), y)

hl_remove_if(h, y) ==
    [h EXCEPT !.l = SeqRemoveX(h.l, y), !.shared = FALSE, !.raised = "no"]

--------------------------------------------------------------------------
(* ObjSelector *)

Gi(n) == [t |-> "gi", v |-> <<n>>]
NoneObj == [obj |-> Gi(-1), objn |-> [t |-> "None", v |-> <<>>]]
Cand(obj, objn) == [obj |-> obj, objn |-> objn]

\* filter_f: NoFilter is None; otherwise the set of objects on which filter_f is true
NoFilter == [on |-> FALSE, pass |-> {}]
Filter(S) == [on |-> TRUE, pass |-> S]

RECURSIVE SeqFilterCand(_, _)
SeqFilterCand(l, filter_f) ==
    IF l = <<>> THEN <<>>
    ELSE (IF Head(l).obj \in filter_f.pass THEN <<Head(l)>> ELSE <<>>)
         \o SeqFilterCand(Tail(l), filter_f)

\* min(candidates, key = lambda x: x[0]) from its second element on, best being
\* the least so far; a later element replaces best on <= : the last minimum wins
RECURSIVE MinLoopLast(_, _, _)
MinLoopLast(l, coor, best) ==
    IF l = <<>> THEN best
    ELSE MinLoopLast(Tail(l), coor,
             IF dist_from(Head(l).objn, coor) <= dist_from(best.objn, coor)
             THEN Head(l) ELSE best)

\* min(candidates, key = lambda x: x[0]) from its second element on, best being
\* the least so far; a later element replaces best only when strictly less
RECURSIVE MinLoop(_, _, _)
MinLoop(l, coor, best) ==
    IF l = <<>> THEN best
    ELSE MinLoop(Tail(l), coor,
             IF dist_from(Head(l).objn, coor) < dist_from(best.objn, coor)
             THEN Head(l) ELSE best)

\* d >= self.find_radius, where find_radius = find_radius_pix / viewport.scale
\* was set by _update_find_radius at the start of the same call
BeyondRadius(d, sc) == d * sc >= find_radius_pix

\* coor_to_obj(coor, l, filter_f) under viewport.scale = sc
coor_to_obj(coor, l, filter_f, sc) ==
    LET l2 == IF filter_f.on THEN SeqFilterCand(l, filter_f) ELSE l
    IN  IF l2 = <<>>
        THEN \* default = (0, None, None)
             NoneObj
        ELSE LET m == MinLoop(Tail(l2), coor, Head(l2))
             IN  IF BeyondRadius(dist_from(m.objn, coor), sc) THEN NoneObj ELSE m

\* the lists of all the selectors, chained
RECURSIVE Chain(_)
Chain(ls) == IF ls = <<>> THEN <<>> ELSE Head(ls) \o Chain(Tail(ls))

\* one attempt on the candidates of all the selectors together
coor_to_attempts_nearest(coor, ls, filter_f, sc) ==
    coor_to_obj(coor, Chain(ls), filter_f, sc)

\* coor_to_attempts(coor, *selectors): ls is the candidate list of each selector
RECURSIVE coor_to_attempts(_, _, _, _)
coor_to_attempts(coor, ls, filter_f, sc) ==
    IF ls = <<>> THEN NoneObj
    ELSE LET r == coor_to_obj(coor, Head(ls), filter_f, sc)
         IN  IF r.obj # NoneObj.obj THEN r
             ELSE coor_to_attempts(coor, Tail(ls), filter_f, sc)

--------------------------------------------------------------------------
(* The scene and the construction.  Object 0 is a point built by an         *)
(* Intersection step with the two ordered candidates Intersections; object  *)
(* 1 is a free point; object 2 a vertical line; object 3 a circle round the *)
(* origin.  The hyper_params of a step fix where its object is.             *)

Objects == {0, 1, 2, 3}
Intersections == <<(<<3, 4>>), (<<0, 0>>)>>

env_init == [hyper_params |-> [o \in Objects |->
                CASE o = 0 -> <<0>> [] o = 1 -> <<3, 0>> [] o = 2 -> <<0>> [] o = 3 -> <<5>>]]

\* step.tool is an Intersection
IsIntersection(step) == step = 0

\* vis.gi_to_num(gi)
gi_to_num(e, gi) ==
    CASE gi = 0 -> Point(Intersections[e.hyper_params[0][1] + 1])
      [] gi = 1 -> Point(e.hyper_params[1])
      [] gi = 2 -> Line(e.hyper_params[2][1])
      [] gi = 3 -> Circle(e.hyper_params[3][1])

\* an object is selectable when it is shown
Shown(v, gi) == v.show_all_mode \/ ~v.gi_to_hidden[gi]

RECURSIVE SelectableOf(_, _, _)
SelectableOf(v, e, gis) ==
    IF gis = <<>> THEN <<>>
    ELSE (IF Shown(v, Head(gis)) THEN <<Cand(Gi(Head(gis)), gi_to_num(e, Head(gis)))>>
          ELSE <<>>) \o SelectableOf(v, e, Tail(gis))

selectable_points(v, e) == SelectableOf(v, e, <<0, 1>>)
selectable_lines(v, e) == SelectableOf(v, e, <<2>>)
selectable_circles(v, e) == SelectableOf(v, e, <<3>>)

\* step.tool.new_hyperpar(grasp, coor, *num_args); i is the solution an
\* Intersection chooses
new_hyperpar(step, coor, i) ==
    CASE step = 0 -> <<i>>
      [] step = 1 -> coor
      [] step = 2 -> <<coor[1]>>
      [] step = 3 -> <<Norm(coor)>>

vis_init ==
    [show_all_mode |-> FALSE, gi_to_hidden |-> [o \in Objects |-> FALSE],
     move_mode |-> FALSE,
     hl_selected |-> <<>>, hl_proposals |-> <<>>, hl_helpers |-> <<>>]

--------------------------------------------------------------------------
(* GTool.  A world w holds the objects a method works on: the class k of    *)
(* the tool, viewport.scale sc, the tool object t, the scene v, the         *)
(* construction e, the calls made so far tr, and q: what the code outside   *)
(* this file answers to the successive calls of an update function.         *)

\* where the tool stands when a call is made: click_coor is set, dragged,
\* update is update_basic
Snap(w) == [armed |-> w.t.click_coor # NoCoor, dragged |-> w.t.dragged,
            basic |-> w.t.update = Fn("update_basic")]

\* a call of the function f, named c, with the coordinate at
Call(c, f, at) == [c |-> c, f |-> f, at |-> at]
Log(w, c, f, at) ==
    [w EXCEPT !.tr = Append(@, [c |-> c, f |-> f, at |-> at, st |-> Snap(w)])]

\* GTool.__init__; the attributes set later by reset and _pre_update are None
tool_init ==
    [update |-> NoneF, on_reset |-> Fn("on_reset"),
     confirm |-> NoneF, confirm_next |-> NoneF, drag |-> NoneF, drag_start |-> NoneF,
     click_coor |-> NoCoor, dragged |-> FALSE,
     hl_proposals |-> HighlightList_init,
     hl_selected |-> HighlightList_init,
     hl_helpers |-> HighlightList_init]

_hl_reset(w) ==
    [Log(w, "_hl_reset", NoneF, NoCoor) EXCEPT
              !.t.hl_proposals = hl_reset_save(@),
              !.t.hl_selected = hl_reset_save(@),
              !.t.hl_helpers = hl_reset_save(@)]

_hl_load(w) ==
    [w EXCEPT !.t.hl_proposals = hl_load(@),
              !.t.hl_selected = hl_load(@),
              !.t.hl_helpers = hl_load(@)]

_hl_save(w) ==
    [w EXCEPT !.t.hl_proposals = hl_save(@),
              !.t.hl_selected = hl_save(@),
              !.t.hl_helpers = hl_save(@)]

_hl_update(w) ==
    Log([w EXCEPT !.v.hl_selected = to_list(w.t.hl_selected),
                  !.v.hl_proposals = to_list(w.t.hl_proposals),
                  !.v.hl_helpers = to_list(w.t.hl_helpers)],
        "_hl_update", NoneF, NoCoor)

hl_propose(w, args, permanent) == [w EXCEPT !.t.hl_proposals = hl_add(@, args, permanent)]
hl_select(w, args, permanent) == [w EXCEPT !.t.hl_selected = hl_add(@, args, permanent)]
hl_add_helper(w, args, permanent) == [w EXCEPT !.t.hl_helpers = hl_add(@, args, permanent)]

\* _pre_update that leaves confirm, confirm_next, drag and drag_start as they are
_pre_update_keep(w) == _hl_load(Log(w, "_pre_update", NoneF, NoCoor))

\* _pre_update without the load of the overlays
_pre_update_noload(w) ==
    [Log(w, "_pre_update", NoneF, NoCoor) EXCEPT
              !.t.drag = NoneF, !.t.drag_start = NoneF,
              !.t.confirm = NoneF, !.t.confirm_next = NoneF]

_pre_update(w) ==
    LET w1 == _hl_load(Log(w, "_pre_update", NoneF, NoCoor))
    IN  [w1 EXCEPT !.t.drag = NoneF, !.t.drag_start = NoneF,
                   !.t.confirm = NoneF, !.t.confirm_next = NoneF]

\* coor_to_pcl(coor, filter_f = ...)
coor_to_pcl(w, coor, filter_f) ==
    coor_to_attempts(coor,
        <<selectable_points(w.v, w.e),
          selectable_lines(w.v, w.e) \o selectable_circles(w.v, w.e)>>,
        filter_f, w.sc)

--------------------------------------------------------------------------
(* GToolHide *)

\* set_show_all(value) that leaves the mode as it is
set_show_all_skip(w, value) == w

set_show_all(w, value) ==
    IF w.v.show_all_mode # value THEN [w EXCEPT !.v.show_all_mode = value] ELSE w

\* vis.hide(obj)
vis_hide(w, gi) == [w EXCEPT !.v.gi_to_hidden[gi] = TRUE]

unhide(w, gi) == set_show_all([w EXCEPT !.v.gi_to_hidden[gi] = FALSE], FALSE)

hide_update_basic(w, coor) ==
    LET r == coor_to_pcl(w, coor, NoFilter)
    IN  IF r.obj = NoneObj.obj
        THEN [w EXCEPT !.t.confirm = FnA("set_show_all", <<1>>),
                       !.t.confirm_next = Fn("update_unhide")]
        ELSE [hl_select(w, <<r.obj>>, TRUE) EXCEPT !.t.confirm = FnA("hide", r.obj.v)]

\* update_unhide that goes on unhiding after an object was unhidden
hide_update_unhide_stay(w, coor) ==
    LET is_hidden == Filter({Gi(o) : o \in {g \in Objects : w.v.gi_to_hidden[g]}})
        r == coor_to_pcl(w, coor, is_hidden)
    IN  IF r.obj = NoneObj.obj
        THEN [w EXCEPT !.t.confirm = FnA("set_show_all", <<0>>)]
        ELSE [hl_select(w, <<r.obj>>, TRUE) EXCEPT !.t.confirm = FnA("unhide", r.obj.v),
                                                   !.t.confirm_next = Fn("update_unhide")]

hide_update_unhide(w, coor) ==
    LET is_hidden == Filter({Gi(o) : o \in {g \in Objects : w.v.gi_to_hidden[g]}})
        r == coor_to_pcl(w, coor, is_hidden)
    IN  IF r.obj = NoneObj.obj
        THEN [w EXCEPT !.t.confirm = FnA("set_show_all", <<0>>)]
        ELSE [hl_select(w, <<r.obj>>, TRUE) EXCEPT !.t.confirm = FnA("unhide", r.obj.v)]

\* on_reset as GTool has it: pass
hide_on_reset_pass(w) == w

hide_on_reset(w) == set_show_all(w, FALSE)

--------------------------------------------------------------------------
(* GToolMove *)

move_update_basic(w, coor) ==
    LET r == coor_to_pcl(w, coor, NoFilter)
    IN  IF r.obj = NoneObj.obj THEN w
        ELSE [hl_select(w, <<r.obj>>, FALSE) EXCEPT
                 !.t.drag = FnA("move_obj", r.obj.v \o coor),
                 !.t.drag_start = Fn("move_start")]

move_start(w) == [w EXCEPT !.t.on_reset = Fn("set_cursor_by_tool")]

\* move_obj that proposes intersections[i], the solution chosen
move_obj_chosen(w, coor, a, i) ==
    LET step == a[1]
        w1 == [w EXCEPT !.e.hyper_params[step] = new_hyperpar(step, coor, i)]
    IN  IF IsIntersection(step)
        THEN hl_propose(w1, <<Point(Intersections[i + 1])>>, FALSE)
        ELSE w1

\* move_obj(coor, step, grasp, num_args); a is <<step>> \o grasp
move_obj(w, coor, a, i) ==
    LET step == a[1]
        w1 == [w EXCEPT !.e.hyper_params[step] = new_hyperpar(step, coor, i)]
    IN  IF IsIntersection(step)
        THEN hl_propose(w1, <<Point(Intersections[(1 - i) + 1])>>, FALSE)
        ELSE w1

--------------------------------------------------------------------------
(* A tool of any other class.  Its update functions do what the class       *)
(* comment of GTool allows: they add entries to the overlays and set        *)
(* confirm, confirm_next, drag_start and drag.  What one call does is one   *)
(* of Behaviours; 0 is no entry, 1 an entry that is not permanent (the      *)
(* point under the cursor), 2 a permanent one (the object Picked).          *)

Behaviours ==
    << [sel |-> 0, prop |-> 0, help |-> 0,
        confirm |-> FALSE, next |-> FALSE, drag |-> FALSE, dstart |-> FALSE],
       [sel |-> 2, prop |-> 0, help |-> 0,
        confirm |-> TRUE, next |-> TRUE, drag |-> FALSE, dstart |-> FALSE],
       [sel |-> 1, prop |-> 0, help |-> 2,
        confirm |-> FALSE, next |-> FALSE, drag |-> TRUE, dstart |-> TRUE],
       [sel |-> 0, prop |-> 2, help |-> 1,
        confirm |-> TRUE, next |-> TRUE, drag |-> TRUE, dstart |-> FALSE] >>

Oracle == 1..Len(Behaviours)

Picked == Gi(9)

generic_update(w, coor, o) ==
    LET b == Behaviours[o]
        x(n) == IF n = 2 THEN Picked ELSE Point(coor)
        w1 == IF b.sel > 0 THEN hl_select(w, <<x(b.sel)>>, b.sel = 2) ELSE w
        w2 == IF b.prop > 0 THEN hl_propose(w1, <<x(b.prop)>>, b.prop = 2) ELSE w1
        w3 == IF b.help > 0 THEN hl_add_helper(w2, <<x(b.help)>>, b.help = 2) ELSE w2
    IN  [w3 EXCEPT
            !.t.confirm = IF b.confirm THEN FnA("do_confirm", coor) ELSE NoneF,
            !.t.confirm_next = IF b.next THEN Fn("update_next") ELSE NoneF,
            !.t.drag = IF b.drag THEN FnA("do_drag", coor) ELSE NoneF,
            !.t.drag_start = IF b.dstart THEN Fn("do_drag_start") ELSE NoneF]

--------------------------------------------------------------------------
(* GTool: the update cycle, the confirm cycle and the externally called     *)
(* methods                                                                  *)

\* run_tuple(self.update, coor)
run_update_fn(w, coor) ==
    LET f == w.t.update
        o == Head(w.q)
        w0 == Log([w EXCEPT !.q = Tail(@)], "update", f, coor)
    IN  CASE f.f = "update_basic" /\ w.k = "hide" -> hide_update_basic(w0, coor)
          [] f.f = "update_basic" /\ w.k = "move" -> move_update_basic(w0, coor)
          [] f.f = "update_basic" /\ w.k = "generic" -> generic_update(w0, coor, o)
          [] f.f = "update_unhide" -> hide_update_unhide(w0, coor)
          [] f.f = "update_next" -> generic_update(w0, coor, o)
          [] f.f = "do_drag" -> generic_update(w0, coor, o)
          [] f.f = "move_obj" -> move_obj(w0, coor, f.a, o % 2)

\* run_tuple(f) for a confirm, drag_start or on_reset function; c names which
run_action(w, c, f) ==
    LET w0 == Log(w, c, f, NoCoor)
    IN  CASE f.f = "set_show_all" -> set_show_all(w0, f.a[1] = 1)
          [] f.f = "hide" -> vis_hide(w0, f.a[1])
          [] f.f = "unhide" -> unhide(w0, f.a[1])
          [] f.f = "on_reset" /\ w.k = "hide" -> hide_on_reset(w0)
          [] f.f = "on_reset" /\ w.k # "hide" -> w0
          [] f.f = "move_start" -> move_start(w0)
          [] f.f \in {"set_cursor_by_tool", "do_confirm", "do_drag_start"} -> w0

\* the last entry says which drag function the update cycle leaves set
_run_update(w, coor) ==
    LET w1 == _hl_update(run_update_fn(_pre_update(Log(w, "_run_update", NoneF, coor)), coor))
    IN  Log(w1, "updated", w1.t.drag, coor)

\* _run_confirm that saves the overlays whether or not the tool goes on
_run_confirm_save(w) ==
    LET w0 == Log(w, "_run_confirm", NoneF, NoCoor)
        w1 == IF w0.t.confirm # NoneF THEN run_action(w0, "confirm", w0.t.confirm) ELSE w0
    IN  IF w1.t.confirm_next # NoneF
        THEN _hl_save([w1 EXCEPT !.t.update = w1.t.confirm_next])
        ELSE LET w2 == [_hl_save(w1) EXCEPT !.t.update = Fn("update_basic")]
             IN  run_action(w2, "on_reset", w2.t.on_reset)

_run_confirm(w) ==
    LET w0 == Log(w, "_run_confirm", NoneF, NoCoor)
        w1 == IF w0.t.confirm # NoneF THEN run_action(w0, "confirm", w0.t.confirm) ELSE w0
    IN  IF w1.t.confirm_next # NoneF
        THEN _hl_save([w1 EXCEPT !.t.update = w1.t.confirm_next])
        ELSE LET w2 == [_hl_reset(w1) EXCEPT !.t.update = Fn("update_basic")]
             IN  run_action(w2, "on_reset", w2.t.on_reset)

\* reset that leaves the display as it is
reset_nopush(w) ==
    LET w0 == Log(w, "reset", NoneF, NoCoor)
        w1 == [w0 EXCEPT !.t.dragged = FALSE, !.t.click_coor = NoCoor]
        w2 == _pre_update(_hl_reset(w1))
        w3 == [w2 EXCEPT !.t.update = Fn("update_basic")]
    IN  run_action(w3, "on_reset", w3.t.on_reset)

reset(w) ==
    LET w0 == Log(w, "reset", NoneF, NoCoor)
        w1 == [w0 EXCEPT !.t.dragged = FALSE, !.t.click_coor = NoCoor]
        w2 == _hl_update(_pre_update(_hl_reset(w1)))
        w3 == [w2 EXCEPT !.t.update = Fn("update_basic")]
    IN  run_action(w3, "on_reset", w3.t.on_reset)

\* cursor_away that also unsets confirm, confirm_next, drag and drag_start
cursor_away_pre(w) == _hl_update(_pre_update(w))

cursor_away(w) == _hl_update(_hl_load(w))

\* button_press without the reset of a press that is still held
button_press_noreset(w, coor) ==
    LET w1 == _run_update(w, coor)
    IN  IF w1.t.drag = NoneF
        THEN _run_update(_run_confirm(w1), coor)
        ELSE LET w2 == [w1 EXCEPT !.t.click_coor = coor, !.t.dragged = FALSE]
                 w3 == IF w2.t.drag_start # NoneF
                       THEN run_action(w2, "drag_start", w2.t.drag_start) ELSE w2
             IN  _hl_save(w3)

\* button_press that runs the confirm cycle also when a drag function was set
button_press_confirm(w, coor) ==
    LET w0 == IF w.t.click_coor # NoCoor THEN reset(w) ELSE w
        w1 == _run_update(w0, coor)
    IN  IF w1.t.drag = NoneF
        THEN _run_update(_run_confirm(w1), coor)
        ELSE LET w2 == [w1 EXCEPT !.t.click_coor = coor, !.t.dragged = FALSE]
                 w3 == IF w2.t.drag_start # NoneF
                       THEN run_action(w2, "drag_start", w2.t.drag_start) ELSE w2
             IN  _hl_save(Log(w3, "_run_confirm", NoneF, NoCoor))

\* button_press that does not save the overlays when it sets click_coor
button_press_nosave(w, coor) ==
    LET w0 == IF w.t.click_coor # NoCoor THEN reset(w) ELSE w
        w1 == _run_update(w0, coor)
    IN  IF w1.t.drag = NoneF
        THEN _run_update(_run_confirm(w1), coor)
        ELSE LET w2 == [w1 EXCEPT !.t.click_coor = coor, !.t.dragged = FALSE]
             IN  IF w2.t.drag_start # NoneF
                 THEN run_action(w2, "drag_start", w2.t.drag_start) ELSE w2

\* button_press that leaves the display to the next motion after a confirm cycle
button_press_once(w, coor) ==
    LET w0 == IF w.t.click_coor # NoCoor THEN reset(w) ELSE w
        w1 == _run_update(w0, coor)
    IN  IF w1.t.drag = NoneF
        THEN _run_confirm(w1)
        ELSE LET w2 == [w1 EXCEPT !.t.click_coor = coor, !.t.dragged = FALSE]
                 w3 == IF w2.t.drag_start # NoneF
                       THEN run_action(w2, "drag_start", w2.t.drag_start) ELSE w2
             IN  _hl_save(w3)

button_press(w, coor) ==
    LET w0 == IF w.t.click_coor # NoCoor THEN reset(w) ELSE w
        w1 == _run_update(w0, coor)
    IN  IF w1.t.drag = NoneF
        THEN _run_update(_run_confirm(w1), coor)
        ELSE LET w2 == [w1 EXCEPT !.t.click_coor = coor, !.t.dragged = FALSE]
                 w3 == IF w2.t.drag_start # NoneF
                       THEN run_action(w2, "drag_start", w2.t.drag_start) ELSE w2
             IN  _hl_save(w3)

\* button_release that runs the confirm cycle whether or not click_coor is set
button_release_always(w, coor) ==
    _run_update(_run_confirm([w EXCEPT !.t.click_coor = NoCoor, !.t.dragged = FALSE]), coor)

button_release(w, coor) ==
    LET w1 == IF w.t.click_coor # NoCoor
              THEN _run_confirm([w EXCEPT !.t.click_coor = NoCoor, !.t.dragged = FALSE])
              ELSE w
    IN  _run_update(w1, coor)

\* self.distance_to_drag_pix, which GToolMove.__init__ sets to 0
DistanceToDragPix(k) == IF k = "move" THEN distance_to_drag_pix_move ELSE distance_to_drag_pix

\* norm(coor - click_coor) > distance_to_drag_pix / viewport.scale
FarEnoughStrict(w, coor) ==
    Norm(Sub(coor, w.t.click_coor)) * w.sc > DistanceToDragPix(w.k)

\* norm(coor - click_coor) >= distance_to_drag_pix / viewport.scale
FarEnough(w, coor) ==
    Norm(Sub(coor, w.t.click_coor)) * w.sc >= DistanceToDragPix(w.k)

\* motion that takes the button as pressed whatever it is told
motion_nobutton(w, coor, button_pressed) ==
    LET w1 == IF w.t.click_coor # NoCoor /\ ~w.t.dragged /\ FarEnough(w, coor)
              THEN IF w.t.drag = NoneF
                   THEN Log(w, "AssertionError", NoneF, NoCoor)
                   ELSE Log([w EXCEPT !.t.update = w.t.drag, !.t.dragged = TRUE],
                            "dragged", w.t.drag, coor)
              ELSE w
    IN  IF w1.tr # <<>> /\ w1.tr[Len(w1.tr)].c = "AssertionError" THEN w1
        ELSE IF w1.t.click_coor = NoCoor \/ w1.t.dragged THEN _run_update(w1, coor)
        ELSE w1

\* motion that runs the update cycle wherever no assertion fails
motion_always(w, coor, button_pressed) ==
    LET w1 == IF w.t.click_coor # NoCoor
              THEN IF ~button_pressed THEN reset(w)
                   ELSE IF ~w.t.dragged /\ FarEnough(w, coor)
                        THEN IF w.t.drag = NoneF
                             THEN Log(w, "AssertionError", NoneF, NoCoor)
                             ELSE Log([w EXCEPT !.t.update = w.t.drag, !.t.dragged = TRUE],
                                      "dragged", w.t.drag, coor)
                        ELSE w
              ELSE w
    IN  IF w1.tr # <<>> /\ w1.tr[Len(w1.tr)].c = "AssertionError" THEN w1
        ELSE _run_update(w1, coor)

motion(w, coor, button_pressed) ==
    LET w1 == IF w.t.click_coor # NoCoor
              THEN IF ~button_pressed THEN reset(w)
                   ELSE IF ~w.t.dragged /\ FarEnough(w, coor)
                        THEN IF w.t.drag = NoneF
                             THEN Log(w, "AssertionError", NoneF, NoCoor)
                             ELSE Log([w EXCEPT !.t.update = w.t.drag, !.t.dragged = TRUE],
                                      "dragged", w.t.drag, coor)
                        ELSE w
              ELSE w
    IN  IF w1.tr # <<>> /\ w1.tr[Len(w1.tr)].c = "AssertionError" THEN w1
        ELSE IF w1.t.click_coor = NoCoor \/ w1.t.dragged THEN _run_update(w1, coor)
        ELSE w1

\* GTool.enter, and GToolMove.enter, which sets move_mode after the reset
enter(w) ==
    LET w1 == reset(w)
    IN  IF w.k = "move" THEN [w1 EXCEPT !.v.move_mode = TRUE] ELSE w1

\* GTool.leave, GToolMove.leave and GToolHide.leave
leave(w) ==
    CASE w.k = "move" -> reset([w EXCEPT !.v.move_mode = FALSE])
      [] w.k = "hide" -> reset(set_show_all(w, FALSE))
      [] w.k = "generic" -> reset(w)

--------------------------------------------------------------------------
(* The tool under the events of the viewport *)

World(qs) == [k |-> kind, sc |-> scale, q |-> qs, t |-> tool, v |-> vis, e |-> env,
              tr |-> <<>>]

\* where the tool stands between two events
Phase ==
    IF ~active THEN "idle"
    ELSE IF tool.dragged THEN "dragging"
    ELSE IF tool.click_coor # NoCoor THEN "armed"
    ELSE IF tool.update # Fn("update_basic") THEN "chained"
    ELSE "idle"

\* an externally called method, its arguments, and the phase it was called in
Event(op, coor, pressed) == [op |-> op, coor |-> coor, pressed |-> pressed, from |-> Phase]

\* no overlay list is longer than MaxHl
Bounded(w) ==
    \A h \in {w.t.hl_proposals, w.t.hl_selected, w.t.hl_helpers} :
        Len(h.l) <= MaxHl /\ Len(h.ini) <= MaxHl

RECURSIVE CountCalls(_, _)
CountCalls(tr, c) ==
    IF tr = <<>> THEN 0
    ELSE (IF Head(tr).c = c THEN 1 ELSE 0) + CountCalls(Tail(tr), c)

\* an update function called in tr was set as a drag function
DragCalled(tr) == \E i \in 1..Len(tr) : tr[i].c = "update" /\ tr[i].f.f \in {"move_obj", "do_drag"}

NoPress == [held |-> FALSE, seq |-> "none", confirms |-> 0, dragcalled |-> FALSE,
            dragged |-> FALSE]

\* the history of a press goes on over the call that led to w
PressOn(w, seq) ==
    [press EXCEPT !.seq = seq,
                  !.confirms = @ + CountCalls(w.tr, "_run_confirm"),
                  !.dragcalled = @ \/ DragCalled(w.tr),
                  !.dragged = @ \/ w.t.dragged]

\* the answers that matter to a tool of class k: which solution an Intersection
\* chooses for GToolMove, nothing for GToolHide; a second answer matters to the
\* generic tool only where the first sets no drag function, since no method
\* runs a second update cycle after one that set it
Qs == CASE kind = "hide" -> {<<1, 1>>}
        [] kind = "move" -> {<<1, 1>>, <<2, 2>>}
        [] kind = "generic" ->
               {qs \in Oracle \X Oracle : Behaviours[qs[1]].drag => qs[2] = qs[1]}

\* the same for a method that calls the update function once
Qs1 == {qs \in Qs : qs[2] = qs[1]}

Commit(w, e) ==
    /\ Bounded(w)
    /\ tool' = w.t
    /\ vis' = w.v
    /\ env' = w.e
    /\ trace' = w.tr
    /\ ev' = e
    /\ UNCHANGED <<kind, scale, hlobj, hlop, pk>>

Enter ==
    /\ ~active
    /\ active' = TRUE
    /\ press' = NoPress
    /\ \E w \in {enter(World(<<>>))} : Commit(w, Event("enter", NoCoor, FALSE))

Leave ==
    /\ active
    /\ active' = FALSE
    /\ press' = NoPress
    /\ \E w \in {leave(World(<<>>))} : Commit(w, Event("leave", NoCoor, FALSE))

Reset ==
    /\ active
    /\ active' = active
    /\ press' = [NoPress EXCEPT !.held = press.held]
    /\ \E w \in {reset(World(<<>>))} : Commit(w, Event("reset", NoCoor, FALSE))

CursorAway ==
    /\ active
    /\ active' = active
    /\ \E w \in {cursor_away(World(<<>>))} :
           /\ Commit(w, Event("cursor_away", NoCoor, FALSE))
           /\ press' = IF press.seq = "armed" THEN PressOn(w, "armed")
                       ELSE [NoPress EXCEPT !.held = press.held]

ButtonPress ==
    /\ active
    /\ active' = active
    /\ \E coor \in Coords, qs \in Qs :
        \E w \in {button_press(World(qs), coor)} :
            /\ Commit(w, Event("button_press", coor, TRUE))
            /\ press' = IF w.t.click_coor # NoCoor
                        THEN [held |-> TRUE, seq |-> "armed",
                              confirms |-> CountCalls(w.tr, "_run_confirm"),
                              dragcalled |-> DragCalled(w.tr),
                              dragged |-> w.t.dragged]
                        ELSE [NoPress EXCEPT !.held = TRUE]

ButtonRelease ==
    /\ active
    /\ active' = active
    /\ \E coor \in Coords, qs \in Qs1 :
        \E w \in {button_release(World(qs), coor)} :
            /\ Commit(w, Event("button_release", coor, FALSE))
            /\ press' = IF press.seq = "armed"
                        THEN [PressOn(w, "released") EXCEPT !.held = FALSE]
                        ELSE NoPress

Motion ==
    /\ active
    /\ active' = active
    /\ \E coor \in Coords, button_pressed \in BOOLEAN, qs \in Qs1 :
        \E w \in {motion(World(qs), coor, button_pressed)} :
            /\ Commit(w, Event("motion", coor, button_pressed))
            /\ press' = IF /\ press.seq = "armed"
                           /\ button_pressed
                           /\ Norm(Sub(coor, tool.click_coor)) * scale
                                  < DistanceToDragPix(kind)
                        THEN PressOn(w, "armed")
                        ELSE [NoPress EXCEPT !.held = press.held]

PkIdle == [coor |-> <<0, 0>>, l |-> <<>>, ls |-> <<>>, filter_f |-> NoFilter, sc |-> 1,
           out |-> NoneObj, done |-> FALSE]
HlIdle == [op |-> "init", prev |-> "init", dropped |-> FALSE]

Init ==
    /\ kind \in {"move", "hide", "generic"}
    /\ active = FALSE
    /\ scale \in Scales
    /\ tool = tool_init
    /\ vis = vis_init
    /\ env = env_init
    /\ trace = <<>>
    /\ ev = [op |-> "init", coor |-> NoCoor, pressed |-> FALSE, from |-> "idle"]
    /\ press = NoPress
    /\ hlobj = HighlightList_init
    /\ hlop = HlIdle
    /\ pk = PkIdle

Next ==
    \/ Enter
    \/ Leave
    \/ Reset
    \/ CursorAway
    \/ ButtonPress
    \/ ButtonRelease
    \/ Motion

Spec == Init /\ [][Next]_vars

\* the tool is a GToolHide
InitHide == Init /\ kind = "hide"
SpecHide == InitHide /\ [][Next]_vars

\* the tool is a GToolMove
InitMove == Init /\ kind = "move"
SpecMove == InitMove /\ [][Next]_vars

--------------------------------------------------------------------------
(* A HighlightList on its own, under any sequence of its methods *)

HlObjects == {Gi(0), Gi(1)}
HlArgs == {<<x>> : x \in HlObjects} \cup {<<x, y>> : x \in HlObjects, y \in HlObjects}

HlDone(h, op) ==
    /\ hlobj' = h
    /\ hlop' = [op |-> op, prev |-> hlop.op,
                dropped |-> op = "load" /\ Len(h.l) < Len(hlobj.l)]
    /\ UNCHANGED <<kind, active, scale, tool, vis, env, trace, ev, press, pk>>

HlAdd ==
    \E args \in HlArgs, permanent \in BOOLEAN :
        /\ Len(hlobj.l) + Len(args) <= MaxL
        /\ HlDone(hl_add(hlobj, args, permanent), "add")

HlLoad == HlDone(hl_load(hlobj), "load")
HlSave == HlDone(hl_save(hlobj), "save")
HlResetSave == HlDone(hl_reset_save(hlobj), "reset_save")
HlPop == HlDone(hl_pop(hlobj), "pop")
HlRemove == \E x \in HlObjects : HlDone(hl_remove(hlobj, x), "remove")
HlRemoveIf == \E y \in HlObjects : HlDone(hl_remove_if(hlobj, y), "remove_if")

InitHL ==
    /\ kind = "generic"
    /\ active = FALSE
    /\ scale = 1
    /\ tool = tool_init
    /\ vis = vis_init
    /\ env = env_init
    /\ trace = <<>>
    /\ ev = [op |-> "init", coor |-> NoCoor, pressed |-> FALSE, from |-> "idle"]
    /\ press = NoPress
    /\ hlobj = HighlightList_init
    /\ hlop = HlIdle
    /\ pk = PkIdle

NextHL ==
    \/ HlAdd
    \/ HlLoad
    \/ HlSave
    \/ HlResetSave
    \/ HlPop
    \/ HlRemove
    \/ HlRemoveIf

SpecHL == InitHL /\ [][NextHL]_vars

--------------------------------------------------------------------------
(* One call of coor_to_obj on any cursor, candidate list, filter and scale  *)

PkPool ==
    {Cand(Gi(0), Point(<<0, 0>>)), Cand(Gi(1), Point(<<3, 4>>)),
     Cand(Gi(2), Line(0)), Cand(Gi(3), Point(<<0, 0>>))}

PkLists == UNION {[1..n -> PkPool] : n \in 0..MaxCand}

PkFilters == {NoFilter, Filter({Gi(1), Gi(2), Gi(3)})}

PkCall ==
    /\ ~pk.done
    /\ pk' = [pk EXCEPT !.out = coor_to_obj(pk.coor, pk.l, pk.filter_f, pk.sc),
                        !.done = TRUE]
    /\ UNCHANGED <<kind, active, scale, tool, vis, env, trace, ev, press, hlobj, hlop>>

InitPick ==
    /\ kind = "generic"
    /\ active = FALSE
    /\ scale = 1
    /\ tool = tool_init
    /\ vis = vis_init
    /\ env = env_init
    /\ trace = <<>>
    /\ ev = [op |-> "init", coor |-> NoCoor, pressed |-> FALSE, from |-> "idle"]
    /\ press = NoPress
    /\ hlobj = HighlightList_init
    /\ hlop = HlIdle
    /\ \E coor \in Coords, l \in PkLists, filter_f \in PkFilters, sc \in Scales :
           pk = [coor |-> coor, l |-> l, ls |-> <<>>, filter_f |-> filter_f, sc |-> sc,
                 out |-> NoneObj, done |-> FALSE]

NextPick == PkCall

SpecPick == InitPick /\ [][NextPick]_vars

--------------------------------------------------------------------------
(* One call of coor_to_attempts on any cursor, selectors, filter and scale; *)
(* a selector is coor_to_obj on a candidate list of its own                 *)

AttPool == {Cand(Gi(1), Point(<<3, 4>>)), Cand(Gi(2), Line(0))}

AttLists == UNION {[1..n -> AttPool] : n \in 0..MaxAttLen}

AttSelectors == UNION {[1..n -> AttLists] : n \in 0..MaxSel}

AttFilters == {NoFilter, Filter({Gi(2)})}

AttCall ==
    /\ ~pk.done
    /\ pk' = [pk EXCEPT !.out = coor_to_attempts(pk.coor, pk.ls, pk.filter_f, pk.sc),
                        !.done = TRUE]
    /\ UNCHANGED <<kind, active, scale, tool, vis, env, trace, ev, press, hlobj, hlop>>

InitAtt ==
    /\ kind = "generic"
    /\ active = FALSE
    /\ scale = 1
    /\ tool = tool_init
    /\ vis = vis_init
    /\ env = env_init
    /\ trace = <<>>
    /\ ev = [op |-> "init", coor |-> NoCoor, pressed |-> FALSE, from |-> "idle"]
    /\ press = NoPress
    /\ hlobj = HighlightList_init
    /\ hlop = HlIdle
    /\ \E coor \in Coords, ls \in AttSelectors, filter_f \in AttFilters, sc \in Scales :
           pk = [coor |-> coor, l |-> <<>>, ls |-> ls, filter_f |-> filter_f, sc |-> sc,
                 out |-> NoneObj, done |-> FALSE]

NextAtt == AttCall

SpecAtt == InitAtt /\ [][NextAtt]_vars

--------------------------------------------------------------------------
(* Properties *)

HasCall(c) == \E i \in 1..Len(trace) : trace[i].c = c

\* the movement from the press anchor to coor reaches the drag threshold
Qualifies(anchor, coor) ==
    Norm(Sub(coor, anchor)) * scale >= (IF kind = "move" THEN 0 ELSE 5)

\* the step from the current state to the next one starts a drag
EntersDrag == ~tool.dragged /\ tool'.dragged

\* C1 as stated: the tool starts to drag (dragged becomes true, the update
\* function becomes the drag function) exactly on a motion that arrives while
\* click_coor is set, at a distance from it of at least
\* distance_to_drag_pix / scale, and with a drag function set at press time.
C1_DragIffMoved ==
    [][ /\ EntersDrag <=>
              /\ ev'.op = "motion"
              /\ tool.click_coor # NoCoor
              /\ ~tool.dragged
              /\ Qualifies(tool.click_coor, ev'.coor)
              /\ tool.drag # NoneF
        /\ EntersDrag => tool'.update = tool.drag ]_vars

\* C1 amended: the same, for a motion that reports the button as pressed; a
\* motion that reports it as not pressed resets the tool and starts no drag.
C1_DragIffMovedPressed ==
    [][ /\ EntersDrag <=>
              /\ ev'.op = "motion"
              /\ ev'.pressed
              /\ tool.click_coor # NoCoor
              /\ ~tool.dragged
              /\ Qualifies(tool.click_coor, ev'.coor)
              /\ tool.drag # NoneF
        /\ EntersDrag => tool'.update = tool.drag ]_vars

\* a motion at exactly the threshold has just started a drag
C1_Witness ==
    /\ ev.op = "motion"
    /\ ev.from = "armed"
    /\ HasCall("dragged")
    /\ tool.dragged
    /\ Norm(Sub(ev.coor, tool.click_coor)) * scale = 5
    /\ kind = "generic"

\* C2: a press that sets a drag function, followed by a release with no motion
\* reaching the threshold in between, runs exactly one confirm cycle, at the
\* release and none at the press; the drag function is never called and
\* dragged is never true.
C2_ClickOnDraggable ==
    /\ press.seq = "armed" =>
           /\ press.confirms = 0
           /\ ~press.dragcalled
           /\ ~press.dragged
           /\ ~tool.dragged
    /\ press.seq = "released" =>
           /\ press.confirms = 1
           /\ CountCalls(trace, "_run_confirm") = 1
           /\ ~press.dragcalled
           /\ ~press.dragged
           /\ ~tool.dragged

\* a click on a draggable tool has ended, after a motion below the threshold
C2_Witness ==
    /\ press.seq = "released"
    /\ ev.op = "button_release"
    /\ ev.from = "armed"
    /\ HasCall("_run_confirm")

Layers == {"hl_proposals", "hl_selected", "hl_helpers"}

\* the permanent entries of a list, in order
Sticky(l) == SelectSeq(l, LAMBDA x : x.permanent)

\* what the confirm cycle has to make of a into b
ConfirmDone(a, b) ==
    IF a.t.confirm_next # NoneF
    THEN /\ b.t.update = a.t.confirm_next
         /\ \A y \in Layers :
                /\ b.t[y].ini = Sticky(a.t[y].l)
                /\ _pre_update(b).t[y].l = Sticky(a.t[y].l)
    ELSE /\ b.t.update = Fn("update_basic")
         /\ \A y \in Layers : b.t[y].ini = <<>>
         /\ \E i \in 1..Len(b.tr) : b.tr[i].c = "on_reset"

\* C3: wherever the tool runs the confirm cycle (in button_press after an update
\* that set no drag function, in button_release with click_coor set): with
\* confirm_next set, update becomes confirm_next and every overlay's saved list
\* becomes the permanent entries of its current list, in order, which the next
\* update cycle starts from; with confirm_next not set, the three saved lists
\* become empty, update becomes update_basic and on_reset is called.
C3_ConfirmCycle ==
    active =>
        /\ \A coor \in Coords, qs \in Qs :
               LET w0 == World(qs)
                   w1 == _run_update(IF tool.click_coor # NoCoor THEN reset(w0) ELSE w0,
                                     coor)
               IN  (w1.t.drag = NoneF /\ Bounded(w1)) =>
                       ConfirmDone(w1, _run_confirm([w1 EXCEPT !.tr = <<>>]))
        /\ tool.click_coor # NoCoor =>
               LET w1 == [World(<<>>) EXCEPT !.t.click_coor = NoCoor, !.t.dragged = FALSE]
               IN  ConfirmDone(w1, _run_confirm(w1))

\* a release has run a confirm cycle that went on to update_next, and a
\* permanent proposal was saved while the helper that was not permanent was not
C3_Witness ==
    /\ ev.op = "button_release"
    /\ ev.from = "armed"
    /\ HasCall("_run_confirm")
    /\ tool.update = Fn("update_next")
    /\ tool.hl_proposals.ini = <<Entry(Picked, TRUE)>>
    /\ tool.hl_helpers.ini = <<>>

\* the tool, the scene and the construction
StateOf(w) == [t |-> w.t, v |-> w.v, e |-> w.e]

RECURSIVE CallsOf(_)
\* the update, confirm and drag_start functions called in tr
CallsOf(tr) ==
    IF tr = <<>> THEN <<>>
    ELSE (IF Head(tr).c \in {"update", "confirm", "drag_start"} THEN <<Head(tr)>> ELSE <<>>)
         \o CallsOf(Tail(tr))

\* button_press(coor) does what reset() and then button_press(coor) do
PressIsResetPress ==
    \A coor \in Coords, qs \in Qs :
        LET a == button_press(World(qs), coor)
            b == button_press(reset(World(qs)), coor)
        IN  Bounded(b) => StateOf(a) = StateOf(b) /\ CallsOf(a.tr) = CallsOf(b.tr)

\* C4 as stated: whenever the button has been pressed and not yet released,
\* whether or not that press set a drag function, a second button_press(c)
\* leaves the same state and calls the same functions as reset() followed by
\* button_press(c).
C4_RepressIsResetPress == (active /\ press.held) => PressIsResetPress

\* C4 amended: the same whenever click_coor is set, that is, when the press
\* that is held set a drag function.
C4_RepressArmed == (active /\ tool.click_coor # NoCoor) => PressIsResetPress

\* a press arrives while a drag is going on
C4_Witness ==
    /\ ev.op = "button_press"
    /\ ev.from = "dragging"
    /\ HasCall("reset")
    /\ tool.click_coor # NoCoor

\* C5: when reset() returns, click_coor is None, dragged is false, the saved and
\* the current list of every overlay are empty, update is update_basic, and
\* confirm, confirm_next, drag and drag_start are None.
C5_ResetIsBasic ==
    ev.op = "reset" =>
        /\ tool.click_coor = NoCoor
        /\ ~tool.dragged
        /\ \A y \in Layers : tool[y].l = <<>> /\ tool[y].ini = <<>>
        /\ tool.update = Fn("update_basic")
        /\ tool.confirm = NoneF
        /\ tool.confirm_next = NoneF
        /\ tool.drag = NoneF
        /\ tool.drag_start = NoneF

\* reset() has returned from a drag
C5_Witness == ev.op = "reset" /\ ev.from = "dragging" /\ tool.update = Fn("update_basic")

\* the objects within the find radius of coor among those of S
Near(S, coor) == {g \in S : dist_from(gi_to_num(env, g), coor) * scale < 20}

Visible == {g \in Objects : ~vis.gi_to_hidden[g]}
Hidden == {g \in Objects : vis.gi_to_hidden[g]}

\* C6: with the hide tool in its basic state and show_all_mode off, a press
\* where no object can be picked turns show_all_mode on and makes update_unhide
\* the update function, and the release of that click leaves both; a press on
\* a hidden object then sets its hidden flag to false, turns show_all_mode off
\* and makes update_basic the update function again.
C6_HideClicks ==
    [][ kind = "hide" =>
          /\ ( /\ ev'.op = "button_press"
               /\ tool.update = Fn("update_basic")
               /\ tool.click_coor = NoCoor
               /\ ~vis.show_all_mode
               /\ Near(Visible, ev'.coor) = {} )
             => (vis'.show_all_mode /\ tool'.update = Fn("update_unhide"))
          /\ ( /\ ev'.op = "button_release"
               /\ tool.click_coor = NoCoor )
             => /\ vis'.show_all_mode = vis.show_all_mode
                /\ vis'.gi_to_hidden = vis.gi_to_hidden
                /\ tool'.update = tool.update
          /\ ( /\ ev'.op = "button_press"
               /\ tool.update = Fn("update_unhide")
               /\ vis.show_all_mode
               /\ Near(Hidden, ev'.coor) # {} )
             => /\ \E g \in Near(Hidden, ev'.coor) :
                      vis'.gi_to_hidden = [vis.gi_to_hidden EXCEPT ![g] = FALSE]
                /\ ~vis'.show_all_mode
                /\ tool'.update = Fn("update_basic") ]_vars

\* the second click of the sequence has unhidden an object
C6_Witness ==
    /\ kind = "hide"
    /\ ev.op = "button_press"
    /\ ev.from = "chained"
    /\ \E i \in 1..Len(trace) : trace[i].c = "confirm" /\ trace[i].f.f = "unhide"
    /\ ~vis.show_all_mode
    /\ tool.update = Fn("update_basic")

\* C7: after leave() and after reset() of the hide tool, in whatever state it
\* was called, show_all_mode is off.
C7_HideOffAfterLeave ==
    (kind = "hide" /\ ev.op \in {"leave", "reset"}) => ~vis.show_all_mode

\* the hide tool was left while it waited for an object to unhide
C7_Witness == kind = "hide" /\ ev.op = "leave" /\ ev.from = "chained"

\* the last method called move_obj on the step of the Intersection
DragUpdateOnIntersection ==
    \E i \in 1..Len(trace) :
        trace[i].c = "update" /\ trace[i].f.f = "move_obj" /\ trace[i].f.a[1] = 0

\* the solution of the Intersection that is not the chosen one
OtherSolution == Point(Intersections[(1 - env.hyper_params[0][1]) + 1])

InList(l, e) == \E i \in 1..Len(l) : l[i] = e

\* C8 as stated: after a drag update of the move tool on an object built by the
\* two-solution intersection, the other solution is in the helper overlay as
\* an entry that is not permanent.
C8_OtherAmongHelpers ==
    (kind = "move" /\ DragUpdateOnIntersection) =>
        InList(tool.hl_helpers.l, Entry(OtherSolution, FALSE))

\* C8 amended: after such a drag update the other solution is in the proposal
\* overlay as an entry that is not permanent; it is in no overlay after an
\* update cycle that did not drag such an object, and after a release.
C8_OtherAmongProposals ==
    kind = "move" =>
        /\ DragUpdateOnIntersection =>
               tool.hl_proposals.l = <<Entry(OtherSolution, FALSE)>>
        /\ ((HasCall("update") /\ ~DragUpdateOnIntersection) \/ ev.op = "button_release") =>
               \A y \in Layers : \A i \in 1..Len(tool[y].l) : tool[y].l[i].x.t # "Point"

\* a drag of the intersection point has just chosen the second solution
C8_Witness ==
    /\ kind = "move"
    /\ ev.op = "motion"
    /\ tool.dragged
    /\ DragUpdateOnIntersection
    /\ env.hyper_params[0] = <<1>>

\* C9: load() after save() leaves in l exactly the permanent entries that l
\* held at the save, in order; a second load() leaves l as it is; and add, pop,
\* remove and remove_if leave ini as it is.
C9_SaveLoad ==
    [][ /\ (hlop'.op = "load" /\ hlop.op = "save") => hlobj'.l = Sticky(hlobj.l)
        /\ (hlop'.op = "load" /\ hlop.op = "load" /\ hlobj.raised = "no") =>
               hlobj'.l = hlobj.l
        /\ hlop'.op \in {"add", "pop", "remove", "remove_if"} =>
               hlobj'.ini = hlobj.ini ]_vars

\* a load after a save has dropped an entry and kept another
C9_Witness ==
    /\ hlop.op = "load"
    /\ hlop.prev = "save"
    /\ hlop.dropped
    /\ hlobj.l # <<>>

\* the candidates of the call pk that pass its filter
PkKept == IF pk.filter_f.on THEN SelectSeq(pk.l, LAMBDA c : c.obj \in pk.filter_f.pass)
          ELSE pk.l

PkDist(i) == dist_from(PkKept[i].objn, pk.coor)

\* the first of the candidates at the least distance
PkFirstMin ==
    CHOOSE i \in 1..Len(PkKept) :
        /\ \A j \in 1..Len(PkKept) : PkDist(i) <= PkDist(j)
        /\ \A j \in 1..(i - 1) : PkDist(j) > PkDist(i)

\* C10: coor_to_obj returns the candidate at the least distance from the
\* cursor, the first of them in the order of the list when several are, if
\* that distance is less than find_radius_pix / scale; it returns None when
\* the distance is not less, and when no candidate passes the filter.
C10_PickNearest ==
    pk.done =>
        IF PkKept = <<>> THEN pk.out = NoneObj
        ELSE IF PkDist(PkFirstMin) * pk.sc < 20 THEN pk.out = PkKept[PkFirstMin]
        ELSE pk.out = NoneObj

\* two different objects were at the least distance, and the first was returned
C10_Witness ==
    /\ pk.done
    /\ pk.out # NoneObj
    /\ \E i, j \in 1..Len(PkKept) :
           /\ i < j
           /\ PkKept[i] = pk.out
           /\ PkKept[j].obj # pk.out.obj
           /\ PkDist(j) = PkDist(i)

\* what the i-th selector answers on its own
AttAnswer(i) == coor_to_obj(pk.coor, pk.ls[i], pk.filter_f, pk.sc)

\* the selectors that find an object
AttHits == {i \in 1..Len(pk.ls) : AttAnswer(i).obj # NoneObj.obj}

\* C11: coor_to_attempts returns what the first selector, in the order of the
\* list, that finds an object returns, whatever a later selector would find,
\* and (None, None) when no selector finds one
C11_FirstAttempt ==
    pk.done =>
        IF AttHits = {} THEN pk.out = NoneObj
        ELSE \E i \in AttHits :
                 /\ \A j \in AttHits : i <= j
                 /\ pk.out = AttAnswer(i)

\* points first, then lines: a point within the radius is returned although
\* a line the second selector would return is strictly nearer
C11_Witness ==
    /\ pk.done
    /\ Len(pk.ls) = 2
    /\ pk.out.objn.t = "Point"
    /\ 2 \in AttHits
    /\ AttAnswer(2).objn.t = "Line"
    /\ dist_from(AttAnswer(2).objn, pk.coor) < dist_from(pk.out.objn, pk.coor)

RECURSIVE NamesOf(_)
\* the names of the calls of tr, in order
NamesOf(tr) == IF tr = <<>> THEN <<>> ELSE <<Head(tr).c>> \o NamesOf(Tail(tr))

\* reset() has left the tool in its basic state with nothing displayed
ResetDone ==
    /\ tool.click_coor = NoCoor
    /\ ~tool.dragged
    /\ \A y \in Layers : tool[y].ini = <<>> /\ tool[y].l = <<>> /\ vis[y] = <<>>
    /\ tool.update = Fn("update_basic")

\* C12 as stated: reset() clears click_coor and dragged, clears the three saved
\* lists, then runs the update cycle, which calls the update function of the
\* moment and displays the overlays, and only then makes update_basic the
\* update function and calls on_reset.
C12_ResetRunsUpdate ==
    ev.op = "reset" =>
        /\ ResetDone
        /\ \E i, j, k, n \in 1..Len(trace) :
               /\ i < j /\ j < k /\ k < n
               /\ trace[i].c = "_hl_reset"
               /\ trace[j].c = "update"
               /\ trace[k].c = "_hl_update"
               /\ trace[n].c = "on_reset"

\* C12 amended: reset() clears click_coor and dragged, then clears the three
\* saved lists, then loads the overlays from them and unsets confirm,
\* confirm_next, drag and drag_start (_pre_update), displays the overlays, now
\* empty, while the update function is still the one it found, and only then
\* makes update_basic the update function and calls on_reset; it calls no
\* update function.
C12_ResetOrder ==
    ev.op = "reset" =>
        /\ ResetDone
        /\ NamesOf(trace) = <<"reset", "_hl_reset", "_pre_update", "_hl_update", "on_reset">>
        /\ ~trace[2].st.armed /\ ~trace[2].st.dragged
        /\ trace[4].st.basic = trace[1].st.basic
        /\ trace[5].st.basic
        /\ trace[5].f = tool.on_reset
        /\ tool.confirm = NoneF /\ tool.confirm_next = NoneF
        /\ tool.drag = NoneF /\ tool.drag_start = NoneF

\* reset() has returned where an update function other than update_basic was
\* in force and overlays were displayed
C12_Witness ==
    /\ ev.op = "reset"
    /\ ev.from = "chained"
    /\ ~HasCall("update")
    /\ HasCall("on_reset")

\* the update cycles and confirm cycles run in tr, in order
CyclesOf(tr) ==
    LET l == SelectSeq(tr, LAMBDA x : x.c \in {"_run_update", "_run_confirm"})
    IN  [i \in 1..Len(l) |-> Call(l[i].c, l[i].f, l[i].at)]

UpdateCycle(coor) == Call("_run_update", NoneF, coor)
ConfirmCycle == Call("_run_confirm", NoneF, NoCoor)

\* the drag function the first update cycle of tr left set
FirstUpdated(tr) == SelectSeq(tr, LAMBDA x : x.c = "updated")[1].f

\* C13: a button_press(c) whose update cycle leaves drag None runs, in this
\* order, the update cycle at c, the confirm cycle and the update cycle at c
\* again, whether the confirm cycle goes on to confirm_next or resets the tool;
\* click_coor is None when it returns, and a button_release that finds
\* click_coor None runs no confirm cycle.
C13_PressNoDrag ==
    /\ (ev.op = "button_press" /\ FirstUpdated(trace) = NoneF) =>
           /\ CyclesOf(trace) = <<UpdateCycle(ev.coor), ConfirmCycle, UpdateCycle(ev.coor)>>
           /\ tool.click_coor = NoCoor
           /\ ~tool.dragged
           /\ Phase \in {"idle", "chained"}
    /\ (ev.op = "button_release" /\ ev.from \in {"idle", "chained"}) =>
           ~HasCall("_run_confirm")

\* a press that set no drag function has run its confirm cycle between two
\* update cycles, and the confirm cycle has reset the tool
C13_Witness ==
    /\ ev.op = "button_press"
    /\ CyclesOf(trace) = <<UpdateCycle(ev.coor), ConfirmCycle, UpdateCycle(ev.coor)>>
    /\ tool.click_coor = NoCoor
    /\ HasCall("on_reset")
    /\ kind = "generic"

\* the functions called as confirm in tr, in order
ConfirmsOf(tr) ==
    LET l == SelectSeq(tr, LAMBDA x : x.c = "confirm")
    IN  [i \in 1..Len(l) |-> l[i].f]

\* the cycles and the confirm calls of tr, by name and in order
StepsOf(tr) ==
    NamesOf(SelectSeq(tr, LAMBDA x : x.c \in {"_run_update", "_run_confirm", "confirm"}))

\* C14: button_release(c) runs the confirm cycle if and only if click_coor is
\* set when it is called, and then with click_coor None and dragged false by
\* the time the confirm cycle starts; the confirm function it calls is the one
\* the tool held when the release arrived, set by the update cycle before it;
\* in every case it ends with exactly one update cycle, at c, after the
\* confirm cycle.
C14_Release ==
    [][ ev'.op = "button_release" =>
          LET set == tool.click_coor # NoCoor
              called == set /\ tool.confirm # NoneF
          IN  /\ CyclesOf(trace') =
                     (IF set THEN <<ConfirmCycle>> ELSE <<>>) \o <<UpdateCycle(ev'.coor)>>
              /\ \A i \in 1..Len(trace') :
                     trace'[i].c = "_run_confirm" =>
                         ~trace'[i].st.armed /\ ~trace'[i].st.dragged
              /\ ConfirmsOf(trace') = (IF called THEN <<tool.confirm>> ELSE <<>>)
              /\ StepsOf(trace') =
                     (IF set THEN <<"_run_confirm">> ELSE <<>>)
                     \o (IF called THEN <<"confirm">> ELSE <<>>) \o <<"_run_update">>
              /\ trace'[Len(trace')] = [c |-> "updated", f |-> tool'.drag, at |-> ev'.coor,
                                        st |-> trace'[Len(trace')].st] ]_vars

\* a release ends a drag away from where the drag last updated: the confirm
\* function called was set at that earlier position
C14_Witness ==
    /\ ev.op = "button_release"
    /\ ev.from = "dragging"
    /\ \E i \in 1..Len(trace) :
           /\ trace[i].c = "confirm"
           /\ trace[i].f.f = "do_confirm"
           /\ trace[i].f.a # ev.coor

\* the entries of tr that are calls named c
CallsNamed(tr, c) == SelectSeq(tr, LAMBDA x : x.c = c)

\* C15: a button_press(c) whose update cycle sets a drag function makes c the
\* click_coor and dragged false, calls drag_start exactly once if it is set
\* (and not at all otherwise), with click_coor set by then, saves the three
\* overlays (each saved list becomes the permanent entries of the current
\* list), runs no confirm cycle and no second update cycle, and leaves the
\* update function the one its update cycle called, which is the one the press
\* found unless it had to reset the tool first.
C15_Arming ==
    [][ (ev'.op = "button_press" /\ FirstUpdated(trace') # NoneF) =>
          LET starts == CallsNamed(trace', "drag_start")
              updates == CallsNamed(trace', "update")
          IN  /\ tool'.click_coor = ev'.coor
              /\ ~tool'.dragged
              /\ tool'.drag = FirstUpdated(trace')
              /\ Len(starts) = (IF tool'.drag_start # NoneF THEN 1 ELSE 0)
              /\ \A i \in 1..Len(starts) :
                     /\ starts[i].f = tool'.drag_start
                     /\ starts[i].st.armed /\ ~starts[i].st.dragged
              /\ \A y \in Layers : tool'[y].ini = Sticky(tool'[y].l)
              /\ CyclesOf(trace') = <<UpdateCycle(ev'.coor)>>
              /\ Len(updates) = 1
              /\ tool'.update = updates[1].f
              /\ tool.click_coor = NoCoor => tool'.update = tool.update ]_vars

\* a press has set click_coor, called drag_start, and saved the permanent
\* helper while the selection that is not permanent stays out of the saved list
C15_Witness ==
    /\ ev.op = "button_press"
    /\ tool.click_coor = ev.coor
    /\ HasCall("drag_start")
    /\ tool.hl_helpers.ini = <<Entry(Picked, TRUE)>>
    /\ tool.hl_selected.l # <<>>
    /\ tool.hl_selected.ini = <<>>

\* C16: a motion that reports the button as pressed and arrives while
\* click_coor is set, dragged is false and the distance from click_coor is
\* below distance_to_drag_pix / scale calls nothing, so runs no update cycle,
\* and leaves the whole tool as it is: update, confirm, confirm_next, drag,
\* drag_start, click_coor, dragged, the current and the saved list of every
\* overlay; the scene and the construction stay as they are too.
C16_SmallMotion ==
    [][ ( /\ ev'.op = "motion"
          /\ ev'.pressed
          /\ tool.click_coor # NoCoor
          /\ ~tool.dragged
          /\ ~Qualifies(tool.click_coor, ev'.coor) ) =>
            /\ trace' = <<>>
            /\ tool' = tool
            /\ vis' = vis
            /\ env' = env ]_vars

\* a motion has arrived 3 or 4 away from click_coor, below the threshold
C16_Witness ==
    /\ ev.op = "motion"
    /\ ev.pressed
    /\ ev.from = "armed"
    /\ tool.click_coor # NoCoor
    /\ ~tool.dragged
    /\ ev.coor # tool.click_coor
    /\ ~Qualifies(tool.click_coor, ev.coor)
    /\ trace = <<>>

\* the tool with confirm, confirm_next, drag and drag_start None and every
\* overlay loaded from its saved list
Cleared(t) ==
    [t EXCEPT !.confirm = NoneF, !.confirm_next = NoneF,
              !.drag = NoneF, !.drag_start = NoneF,
              !.hl_proposals = hl_load(@),
              !.hl_selected = hl_load(@),
              !.hl_helpers = hl_load(@)]

\* the last call of the trace ended an update cycle, and nothing was saved since
AfterUpdateCycle ==
    /\ trace # <<>>
    /\ trace[Len(trace)].c = "updated"
    /\ ~(ev.op = "button_press" /\ tool.click_coor # NoCoor)

\* C17: in every update cycle the update function is called right after
\* _pre_update, at the coordinate of the cycle; and after an update cycle the
\* tool is what one call of its update function at that coordinate makes of the
\* tool with confirm, confirm_next, drag and drag_start None and every overlay
\* loaded from its saved list: every entry beyond the saved ones and every one
\* of the four attributes that is set comes from that call, and what is
\* displayed is the overlays so made.  For the generic tool, whose entries that
\* are not permanent and whose confirm and drag functions carry the coordinate
\* they were made at, that coordinate is the one of the cycle.
C17_Volatile ==
    /\ \A i \in 1..Len(trace) :
           trace[i].c = "update" =>
               /\ i >= 3
               /\ trace[i - 1].c = "_pre_update"
               /\ trace[i - 2].c = "_run_update"
               /\ trace[i - 2].at = trace[i].at
    /\ AfterUpdateCycle =>
           /\ \E o \in Oracle :
                  LET r == run_update_fn([World(<<o>>) EXCEPT !.t = Cleared(tool)], ev.coor)
                  IN  r.t = tool /\ r.e = env /\ r.v = vis
           /\ \A y \in Layers : vis[y] = to_list(tool[y])
           /\ kind = "generic" =>
                  /\ \A y \in Layers : \A i \in 1..Len(tool[y].l) :
                         ~tool[y].l[i].permanent => tool[y].l[i].x = Point(ev.coor)
                  /\ tool.confirm # NoneF => tool.confirm.a = ev.coor
                  /\ tool.drag # NoneF => tool.drag.a = ev.coor

\* an update cycle has run on a motion of the generic tool where a saved
\* selection was loaded, a confirm function set, and a helper that is not
\* permanent added
C17_Witness ==
    /\ AfterUpdateCycle
    /\ ev.op = "motion"
    /\ kind = "generic"
    /\ tool.hl_selected.ini # <<>>
    /\ tool.hl_helpers.l # <<>>
    /\ ~tool.hl_helpers.l[1].permanent
    /\ tool.confirm # NoneF

\* C18: whenever click_coor is set and dragged is false, drag is set, so that
\* the assertion of motion never fails; and dragged is true only while
\* click_coor is set.
C18_DragSet ==
    /\ (tool.click_coor # NoCoor /\ ~tool.dragged) => tool.drag # NoneF
    /\ ~HasCall("AssertionError")
    /\ tool.dragged => tool.click_coor # NoCoor

\* a motion has passed the assertion and started a drag, and the update cycle
\* of the drag has left drag None while click_coor is set
C18_Witness ==
    /\ ev.op = "motion"
    /\ HasCall("dragged")
    /\ tool.dragged
    /\ tool.click_coor # NoCoor
    /\ tool.drag = NoneF

\* C19: between two calls from outside, show_all_mode of the hide tool is on
\* if and only if its update function is update_unhide; it is never on while
\* the update function is update_basic.
C19_ShowAllIffUnhide ==
    kind = "hide" =>
        /\ vis.show_all_mode <=> tool.update = Fn("update_unhide")
        /\ tool.update = Fn("update_basic") => ~vis.show_all_mode

\* show_all_mode is on with update_unhide in force, and a motion has come
\* and gone
C19_Witness ==
    /\ kind = "hide"
    /\ active
    /\ ev.op = "motion"
    /\ ev.from = "chained"
    /\ vis.show_all_mode
    /\ tool.update = Fn("update_unhide")

\* C20: a motion(c) that reports the button as not pressed and arrives while
\* click_coor is set, dragged or not, does what reset() does (click_coor None,
\* dragged false, the saved lists empty, update_basic the update function,
\* on_reset called), runs no confirm cycle, and then runs one update cycle, at
\* c, that calls update_basic.
C20_LostRelease ==
    (ev.op = "motion" /\ ~ev.pressed /\ ev.from \in {"armed", "dragging"}) =>
        /\ NamesOf(trace) =
               <<"reset", "_hl_reset", "_pre_update", "_hl_update", "on_reset",
                 "_run_update", "_pre_update", "update", "_hl_update", "updated">>
        /\ trace[1].st.armed
        /\ trace[5].f = tool.on_reset
        /\ ~trace[6].st.armed /\ ~trace[6].st.dragged /\ trace[6].st.basic
        /\ trace[6].at = ev.coor
        /\ trace[8].f = Fn("update_basic")
        /\ trace[8].at = ev.coor
        /\ tool.click_coor = NoCoor
        /\ ~tool.dragged
        /\ \A y \in Layers : tool[y].ini = <<>>
        /\ tool.update = Fn("update_basic")

\* a motion without the button has arrived in the middle of a drag
C20_Witness ==
    /\ ev.op = "motion"
    /\ ~ev.pressed
    /\ ev.from = "dragging"
    /\ HasCall("reset")
    /\ HasCall("update")
    /\ tool.click_coor = NoCoor

====
